---- MODULE Spec2Model ----
(***************************************************************************)
(* Model of src/main.py (API Astrologia Electiva): the position            *)
(* derivation, the lunar helpers, the aspect calculator, the scoring       *)
(* engine calcular_puntaje_fecha and the range scanner calcular_electiva.  *)
(*                                                                         *)
(* Angles are integers in thousandths of a degree (195000 is 195.0         *)
(* degrees), speeds are thousandths of a degree per day, and a calendar    *)
(* date is its proleptic Gregorian ordinal (1 is 0001-01-01, a Monday),    *)
(* which is what datetime arithmetic and weekday() work on.                *)
(***************************************************************************)
EXTENDS Integers, Sequences, FiniteSets, TLC

VARIABLES
    efemerides,    \* the external ephemeris service (swe.calc_ut)
    pc,            \* position of the handler / caller
    solicitud,     \* the request being served
    fecha_hasta,   \* calcular_electiva: end date after the 60-day limit
    fecha_actual,  \* calcular_electiva: loop variable
    analisis,      \* last value returned by calcular_puntaje_fecha
    resultados,    \* calcular_electiva: collected ResultadoFecha list
    respuesta      \* RespuestaElectiva, or the HTTP failure

vars == <<efemerides, pc, solicitud, fecha_hasta, fecha_actual, analisis,
          resultados, respuesta>>

-----------------------------------------------------------------------------
(* Constants of the program *)

swe == [SUN |-> 0, MOON |-> 1, MERCURY |-> 2, VENUS |-> 3, MARS |-> 4,
        JUPITER |-> 5, SATURN |-> 6]

Cuerpos == {swe.SUN, swe.MOON, swe.MERCURY, swe.VENUS, swe.MARS,
            swe.JUPITER, swe.SATURN}

SIGNOS == <<"Aries", "Tauro", "Géminis", "Cáncer", "Leo", "Virgo",
            "Libra", "Escorpio", "Sagitario", "Capricornio", "Acuario",
            "Piscis">>

DIAS_SEMANA == <<"Lunes", "Martes", "Miércoles", "Jueves", "Viernes",
                 "Sábado", "Domingo">>

ORDEN_HORAS_PLANETARIAS ==
    <<"Saturno", "Júpiter", "Marte", "Sol", "Venus", "Mercurio", "Luna">>

\* keyed by weekday() + 1 (Monday first)
REGENTES_DIAS ==
    <<"Luna", "Marte", "Mercurio", "Júpiter", "Venus", "Saturno", "Sol">>

VIA_COMBUSTA_INICIO == 195000
VIA_COMBUSTA_FIN == 225000

TIPOS_PROYECTO ==
    [negocio     |-> [descripcion |-> "Negocio / Empresa"],
     tienda      |-> [descripcion |-> "Tienda / Comercio"],
     contrato    |-> [descripcion |-> "Contrato / Acuerdo"],
     inversion   |-> [descripcion |-> "Inversión"],
     lanzamiento |-> [descripcion |-> "Lanzamiento de Producto"],
     sociedad    |-> [descripcion |-> "Sociedad / Partnership"],
     web         |-> [descripcion |-> "Sitio Web / App"],
     otro        |-> [descripcion |-> "Proyecto General"]]

PESOS ==
    [luna_creciente          |-> 15,
     luna_menguante          |-> -10,
     luna_vacia_curso        |-> -25,
     via_combusta            |-> -20,
     mercurio_retrogrado     |-> -20,
     mercurio_directo        |-> 10,
     luna_conjuncion_jupiter |-> 15,
     luna_trigono_jupiter    |-> 15,
     luna_sextil_jupiter     |-> 12,
     luna_conjuncion_venus   |-> 12,
     luna_trigono_venus      |-> 12,
     luna_sextil_venus       |-> 10,
     luna_cuadratura_marte   |-> -15,
     luna_oposicion_marte    |-> -15,
     luna_conjuncion_marte   |-> -12,
     luna_cuadratura_saturno |-> -15,
     luna_oposicion_saturno  |-> -15,
     luna_conjuncion_saturno |-> -12,
     luna_signo_favorable    |-> 8,
     sol_trigono_luna        |-> 10,
     sol_sextil_luna         |-> 8]

\* dict.get(key, default)
PESOS_get(key, default) ==
    IF key \in DOMAIN PESOS THEN PESOS[key] ELSE default

None == [none |-> TRUE]

\* what a call yields when it raises instead of returning
Excepcion == [excepcion |-> TRUE]

Abs(x) == IF x < 0 THEN -x ELSE x
Max(a, b) == IF a > b THEN a ELSE b
Min(a, b) == IF a < b THEN a ELSE b

-----------------------------------------------------------------------------
(* The ephemeris service.  efemerides.lon0[p] and efemerides.vel[p] are    *)
(* the longitude and speed of body p at noon of date 1; the body moves     *)
(* uniformly.  A lookup of body p fails on the days whose parity q has     *)
(* <<q, p>> in efemerides.fallos.                                          *)

obtener_dia_juliano(fecha) == fecha + 1721425

swe_calc_ut(dia_juliano, planeta) ==
    IF <<dia_juliano % 2, planeta>> \in efemerides.fallos
    THEN None
    ELSE [lon |-> (efemerides.lon0[planeta]
                   + efemerides.vel[planeta]
                     * (dia_juliano - obtener_dia_juliano(1))) % 360000,
          vel |-> efemerides.vel[planeta]]

\* lines 297-313: the dictionary built from a longitude and a speed
Posicion(longitud, velocidad) ==
    [longitud     |-> longitud,
     signo        |-> SIGNOS[(longitud \div 30000) + 1],
     numero_signo |-> longitud \div 30000,
     grado        |-> longitud % 30000,
     velocidad    |-> velocidad,
     retrogrado   |-> velocidad < 0]

\* the try/except of obtener_posicion_planeta around the lookup
PosicionDe(posicion) ==
    IF posicion = None THEN None ELSE Posicion(posicion.lon, posicion.vel)

obtener_posicion_planeta(dia_juliano, planeta) ==
    PosicionDe(swe_calc_ut(dia_juliano, planeta))

\* FaseDeDiferencia with the boundary of each band given to the band below
FaseDeDiferenciaInclusiva(diferencia) ==
    IF diferencia <= 45000
    THEN [fase |-> "Nueva", creciente |-> TRUE, angulo |-> diferencia]
    ELSE IF diferencia <= 90000
    THEN [fase |-> "Creciente", creciente |-> TRUE, angulo |-> diferencia]
    ELSE IF diferencia <= 135000
    THEN [fase |-> "Cuarto Creciente", creciente |-> TRUE,
          angulo |-> diferencia]
    ELSE IF diferencia <= 180000
    THEN [fase |-> "Gibosa Creciente", creciente |-> TRUE,
          angulo |-> diferencia]
    ELSE IF diferencia <= 225000
    THEN [fase |-> "Llena", creciente |-> FALSE, angulo |-> diferencia]
    ELSE IF diferencia <= 270000
    THEN [fase |-> "Gibosa Menguante", creciente |-> FALSE,
          angulo |-> diferencia]
    ELSE IF diferencia <= 315000
    THEN [fase |-> "Cuarto Menguante", creciente |-> FALSE,
          angulo |-> diferencia]
    ELSE [fase |-> "Menguante", creciente |-> FALSE, angulo |-> diferencia]

\* lines 342-371: the phase of a Sun-Moon difference
FaseDeDiferencia(diferencia) ==
    IF diferencia < 45000
    THEN [fase |-> "Nueva", creciente |-> TRUE, angulo |-> diferencia]
    ELSE IF diferencia < 90000
    THEN [fase |-> "Creciente", creciente |-> TRUE, angulo |-> diferencia]
    ELSE IF diferencia < 135000
    THEN [fase |-> "Cuarto Creciente", creciente |-> TRUE,
          angulo |-> diferencia]
    ELSE IF diferencia < 180000
    THEN [fase |-> "Gibosa Creciente", creciente |-> TRUE,
          angulo |-> diferencia]
    ELSE IF diferencia < 225000
    THEN [fase |-> "Llena", creciente |-> FALSE, angulo |-> diferencia]
    ELSE IF diferencia < 270000
    THEN [fase |-> "Gibosa Menguante", creciente |-> FALSE,
          angulo |-> diferencia]
    ELSE IF diferencia < 315000
    THEN [fase |-> "Cuarto Menguante", creciente |-> FALSE,
          angulo |-> diferencia]
    ELSE [fase |-> "Menguante", creciente |-> FALSE, angulo |-> diferencia]

\* lines 335-339
FaseDe(sol, luna) ==
    IF sol = None \/ luna = None
    THEN [fase |-> "desconocida", creciente |-> FALSE]
    ELSE FaseDeDiferencia((luna.longitud - sol.longitud) % 360000)

obtener_fase_lunar(dia_juliano) ==
    FaseDe(obtener_posicion_planeta(dia_juliano, swe.SUN),
           obtener_posicion_planeta(dia_juliano, swe.MOON))

\* shorter arc between two longitudes
ArcoMenor(lon1, lon2) ==
    IF Abs(lon1 - lon2) > 180000
    THEN 360000 - Abs(lon1 - lon2)
    ELSE Abs(lon1 - lon2)

\* lines 406-410: the inner loop over the major aspects, orb 3
AspectoAplicativo(luna, diferencia) ==
    \E aspecto \in {0, 60000, 90000, 120000, 180000} :
       Abs(diferencia - aspecto) < 3000 /\ luna.velocidad > 0

\* lines 399-410: the body of the loop for one planet
AspectoAplicativoCon(luna, pos_planeta) ==
    /\ pos_planeta # None
    /\ AspectoAplicativo(luna,
                         ArcoMenor(luna.longitud, pos_planeta.longitud))

RECURSIVE ExplorarPlanetas(_, _, _, _)
\* lines 396-410: the loop over the planets, with its flag
ExplorarPlanetas(luna, dia_juliano, planetas, tiene_aspecto_aplicativo) ==
    IF planetas = <<>>
    THEN tiene_aspecto_aplicativo
    ELSE ExplorarPlanetas(
             luna, dia_juliano, Tail(planetas),
             \/ AspectoAplicativoCon(
                    luna,
                    obtener_posicion_planeta(dia_juliano, Head(planetas)))
             \/ tiene_aspecto_aplicativo)

\* VaciaDeCurso with degree 27 itself inside the window
VaciaDeCursoDesde27(luna, dia_juliano) ==
    IF luna = None
    THEN FALSE
    ELSE IF luna.grado >= 27000
    THEN ~ExplorarPlanetas(luna, dia_juliano,
                           <<swe.SUN, swe.MERCURY, swe.VENUS, swe.MARS,
                             swe.JUPITER, swe.SATURN>>,
                           FALSE)
    ELSE FALSE

\* lines 388-414
VaciaDeCurso(luna, dia_juliano) ==
    IF luna = None
    THEN FALSE
    ELSE IF luna.grado > 27000
    THEN ~ExplorarPlanetas(luna, dia_juliano,
                           <<swe.SUN, swe.MERCURY, swe.VENUS, swe.MARS,
                             swe.JUPITER, swe.SATURN>>,
                           FALSE)
    ELSE FALSE

esta_luna_vacia_de_curso(dia_juliano) ==
    VaciaDeCurso(obtener_posicion_planeta(dia_juliano, swe.MOON), dia_juliano)

\* esta_en_via_combusta without its upper end
esta_en_via_combusta_abierta(longitud) ==
    VIA_COMBUSTA_INICIO <= longitud /\ longitud < VIA_COMBUSTA_FIN

esta_en_via_combusta(longitud) ==
    VIA_COMBUSTA_INICIO <= longitud /\ longitud <= VIA_COMBUSTA_FIN

\* the aspect table of calcular_aspecto, in its iteration order; a symbol
\* is written as its code point
aspectos ==
    <<[angulo |-> 0,      nombre |-> "Conjunción", simbolo |-> "U+260C", orbe |-> 8000],
      [angulo |-> 60000,  nombre |-> "Sextil",     simbolo |-> "U+26B9", orbe |-> 6000],
      [angulo |-> 90000,  nombre |-> "Cuadratura", simbolo |-> "U+25A1", orbe |-> 7000],
      [angulo |-> 120000, nombre |-> "Trígono",    simbolo |-> "U+25B3", orbe |-> 8000],
      [angulo |-> 180000, nombre |-> "Oposición",  simbolo |-> "U+260D", orbe |-> 8000]>>

\* lines 469-475: the dictionary returned for a table entry
AspectoHallado(a, orbe) ==
    [aspecto |-> a.nombre,
     simbolo |-> a.simbolo,
     angulo  |-> a.angulo,
     orbe    |-> orbe,
     exacto  |-> orbe < 1000]

RECURSIVE BuscarAspecto(_, _, _)
\* lines 467-477: the loop over the table, from entry i on
BuscarAspecto(tabla, diferencia, i) ==
    IF i > Len(tabla)
    THEN None
    ELSE IF Abs(diferencia - tabla[i].angulo) <= tabla[i].orbe
    THEN AspectoHallado(tabla[i], Abs(diferencia - tabla[i].angulo))
    ELSE BuscarAspecto(tabla, diferencia, i + 1)

\* AspectoEntre on the plain difference, not reduced to the shorter arc
AspectoEntreSinReducir(pos1, pos2) ==
    IF pos1 = None \/ pos2 = None
    THEN None
    ELSE BuscarAspecto(aspectos, Abs(pos1.longitud - pos2.longitud), 1)

\* lines 451-477
AspectoEntre(pos1, pos2) ==
    IF pos1 = None \/ pos2 = None
    THEN None
    ELSE BuscarAspecto(aspectos, ArcoMenor(pos1.longitud, pos2.longitud), 1)

calcular_aspecto(dia_juliano, planeta1, planeta2) ==
    AspectoEntre(obtener_posicion_planeta(dia_juliano, planeta1),
                 obtener_posicion_planeta(dia_juliano, planeta2))

-----------------------------------------------------------------------------
(* The scoring engine.  A rule takes the pair [puntaje, factores] built so *)
(* far and returns the pair after the rule.                                *)

\* str.lower() on the aspect names
lower(s) ==
    CASE s = "Conjunción" -> "conjunción"
      [] s = "Sextil"     -> "sextil"
      [] s = "Cuadratura" -> "cuadratura"
      [] s = "Trígono"    -> "trígono"
      [] s = "Oposición"  -> "oposición"

\* nearest whole number of x/1000, ties to even
RedondearMilesimas(q, r) ==
    IF r < 500 THEN q
    ELSE IF r > 500 THEN q + 1
    ELSE IF q % 2 = 0 THEN q ELSE q + 1

\* format(x, ".0f") of an angle
Formato0f(miligrados) ==
    ToString(RedondearMilesimas(miligrados \div 1000, miligrados % 1000))

Anotar(acc, peso, texto, tipo) ==
    [puntaje  |-> acc.puntaje + peso,
     factores |-> Append(acc.factores, [texto |-> texto, tipo |-> tipo])]

\* PuntuarFase with the two weights exchanged
PuntuarFaseInvertida(acc, fase_lunar) ==
    IF fase_lunar.creciente
    THEN Anotar(acc, PESOS["luna_menguante"],
                "U+263D Luna " \o fase_lunar.fase, "positive")
    ELSE Anotar(acc, PESOS["luna_creciente"],
                "U+263D Luna " \o fase_lunar.fase, "negative")

\* lines 565-576
PuntuarFase(acc, fase_lunar) ==
    IF fase_lunar.creciente
    THEN Anotar(acc, PESOS["luna_creciente"],
                "U+263D Luna " \o fase_lunar.fase, "positive")
    ELSE Anotar(acc, PESOS["luna_menguante"],
                "U+263D Luna " \o fase_lunar.fase, "negative")

ReglaFaseLunar(acc, dia_juliano) ==
    PuntuarFase(acc, obtener_fase_lunar(dia_juliano))

ReglaVaciaDeCurso(acc, dia_juliano) ==
    IF esta_luna_vacia_de_curso(dia_juliano)
    THEN Anotar(acc, PESOS["luna_vacia_curso"],
                "U+263D Luna Vacía de Curso", "negative")
    ELSE acc

\* lines 597-602
PuntuarViaCombusta(acc, luna) ==
    IF luna # None /\ esta_en_via_combusta(luna.longitud)
    THEN Anotar(acc, PESOS["via_combusta"],
                "U+263D Via Combusta (" \o Formato0f(luna.grado)
                    \o "° " \o luna.signo \o ")",
                "negative")
    ELSE acc

ReglaViaCombusta(acc, dia_juliano) ==
    PuntuarViaCombusta(acc, obtener_posicion_planeta(dia_juliano, swe.MOON))

\* lines 611-622
PuntuarMercurio(acc, mercurio) ==
    IF mercurio # None /\ mercurio.retrogrado
    THEN Anotar(acc, PESOS["mercurio_retrogrado"],
                "U+263F Mercurio Retrógrado U+211E", "negative")
    ELSE Anotar(acc, PESOS["mercurio_directo"],
                "U+263F Mercurio Directo", "positive")

ReglaMercurio(acc, dia_juliano) ==
    PuntuarMercurio(acc, obtener_posicion_planeta(dia_juliano, swe.MERCURY))

TextoAspectoLuna(aspecto, simbolo_planeta) ==
    "U+263D " \o aspecto.simbolo \o " " \o simbolo_planeta
        \o " (" \o aspecto.aspecto \o ")"

\* lines 631-644
PuntuarLunaJupiter(acc, aspecto_luna_jupiter) ==
    IF aspecto_luna_jupiter = None
    THEN acc
    ELSE IF aspecto_luna_jupiter.aspecto \in {"Conjunción", "Trígono", "Sextil"}
    THEN Anotar(acc,
                PESOS_get("luna_" \o lower(aspecto_luna_jupiter.aspecto)
                              \o "_jupiter", 12),
                TextoAspectoLuna(aspecto_luna_jupiter, "U+2643"),
                "positive")
    ELSE IF aspecto_luna_jupiter.aspecto \in {"Cuadratura", "Oposición"}
    THEN Anotar(acc, -5, TextoAspectoLuna(aspecto_luna_jupiter, "U+2643"),
                "neutral")
    ELSE acc

ReglaLunaJupiter(acc, dia_juliano) ==
    PuntuarLunaJupiter(acc,
                       calcular_aspecto(dia_juliano, swe.MOON, swe.JUPITER))

\* lines 647-653
PuntuarLunaVenus(acc, aspecto_luna_venus) ==
    IF /\ aspecto_luna_venus # None
       /\ aspecto_luna_venus.aspecto \in {"Conjunción", "Trígono", "Sextil"}
    THEN Anotar(acc, 10, TextoAspectoLuna(aspecto_luna_venus, "U+2640"),
                "positive")
    ELSE acc

ReglaLunaVenus(acc, dia_juliano) ==
    PuntuarLunaVenus(acc, calcular_aspecto(dia_juliano, swe.MOON, swe.VENUS))

\* lines 662-668 and 671-677: Mars and Saturn share the shape
PuntuarLunaMalefico(acc, aspecto_luna, peso, simbolo_planeta) ==
    IF /\ aspecto_luna # None
       /\ aspecto_luna.aspecto \in {"Conjunción", "Cuadratura", "Oposición"}
    THEN Anotar(acc, peso, TextoAspectoLuna(aspecto_luna, simbolo_planeta),
                "negative")
    ELSE acc

ReglaLunaMarte(acc, dia_juliano) ==
    PuntuarLunaMalefico(acc,
                        calcular_aspecto(dia_juliano, swe.MOON, swe.MARS),
                        PESOS["luna_cuadratura_marte"], "U+2642")

ReglaLunaSaturno(acc, dia_juliano) ==
    PuntuarLunaMalefico(acc,
                        calcular_aspecto(dia_juliano, swe.MOON, swe.SATURN),
                        PESOS["luna_cuadratura_saturno"], "U+2644")

signos_favorables == {"Tauro", "Cáncer", "Virgo", "Capricornio", "Piscis"}

\* lines 686-691
PuntuarSignoLunar(acc, luna) ==
    IF luna # None /\ luna.signo \in signos_favorables
    THEN Anotar(acc, PESOS["luna_signo_favorable"],
                "U+263D Luna en " \o luna.signo, "positive")
    ELSE acc

ReglaSignoLunar(acc, dia_juliano) ==
    PuntuarSignoLunar(acc, obtener_posicion_planeta(dia_juliano, swe.MOON))

\* lines 700-706
PuntuarSolLuna(acc, aspecto_sol_luna) ==
    IF /\ aspecto_sol_luna # None
       /\ aspecto_sol_luna.aspecto \in {"Trígono", "Sextil"}
    THEN Anotar(acc, PESOS["sol_trigono_luna"],
                "U+2609 " \o aspecto_sol_luna.simbolo \o " U+263D", "positive")
    ELSE acc

ReglaSolLuna(acc, dia_juliano) ==
    PuntuarSolLuna(acc, calcular_aspecto(dia_juliano, swe.SUN, swe.MOON))

\* lines 543-544: where the rules start
Base == [puntaje |-> 50, factores |-> <<>>]

\* the rules after the Mercury rule, in the order of the code
ReglasDeAspectos(acc, dia_juliano) ==
    ReglaSolLuna(
        ReglaSignoLunar(
            ReglaLunaSaturno(
                ReglaLunaMarte(
                    ReglaLunaVenus(
                        ReglaLunaJupiter(acc, dia_juliano),
                        dia_juliano),
                    dia_juliano),
                dia_juliano),
            dia_juliano),
        dia_juliano)

\* ReglasLunares with the phase rule evaluated last
ReglasLunaresFaseAlFinal(acc, dia_juliano) ==
    ReglaFaseLunar(
        ReglaViaCombusta(ReglaVaciaDeCurso(acc, dia_juliano), dia_juliano),
        dia_juliano)

\* the rules before the Mercury rule, in the order of the code
ReglasLunares(acc, dia_juliano) ==
    ReglaViaCombusta(
        ReglaVaciaDeCurso(ReglaFaseLunar(acc, dia_juliano), dia_juliano),
        dia_juliano)

\* puntaje and factores as they stand before the clamp of line 712
Acumulado(dia_juliano) ==
    ReglasDeAspectos(
        ReglaMercurio(ReglasLunares(Base, dia_juliano), dia_juliano),
        dia_juliano)

\* Acotar without the lower limit
AcotarSinPiso(puntaje) == Min(100, puntaje)

Acotar(puntaje) == Max(0, Min(100, puntaje))

\* Nivel with a strict first threshold
NivelUmbralEstricto(puntaje) ==
    IF puntaje > 80 THEN "excellent"
    ELSE IF puntaje >= 60 THEN "good"
    ELSE IF puntaje >= 40 THEN "caution"
    ELSE "avoid"

Nivel(puntaje) ==
    IF puntaje >= 80 THEN "excellent"
    ELSE IF puntaje >= 60 THEN "good"
    ELSE IF puntaje >= 40 THEN "caution"
    ELSE "avoid"

\* lines 715-728: the level of the clamped score and the returned dictionary
Devolver(puntaje, factores) ==
    [puntaje |-> puntaje, nivel |-> Nivel(puntaje), factores |-> factores]

\* lines 712-728
Concluir(acumulado) == Devolver(Acotar(acumulado.puntaje), acumulado.factores)

\* calcular_puntaje_fecha raising when a position is unavailable
calcular_puntaje_fecha_propaga(dia_juliano, tipo_proyecto, lat, lon) ==
    IF \E p \in Cuerpos : swe_calc_ut(dia_juliano, p) = None
    THEN Excepcion
    ELSE Concluir(Acumulado(dia_juliano))

\* calcular_puntaje_fecha favouring one project type
calcular_puntaje_fecha_por_tipo(dia_juliano, tipo_proyecto, lat, lon) ==
    IF tipo_proyecto = "negocio"
    THEN Concluir(Anotar(Acumulado(dia_juliano), 5, "U+2643 Negocio",
                         "positive"))
    ELSE Concluir(Acumulado(dia_juliano))

calcular_puntaje_fecha(dia_juliano, tipo_proyecto, lat, lon) ==
    Concluir(Acumulado(dia_juliano))

-----------------------------------------------------------------------------
(* Planetary hours *)

weekday(fecha) == (fecha + 6) % 7

\* list.index(x)
IndiceDe(lista, x) == (CHOOSE i \in DOMAIN lista : lista[i] = x) - 1

obtener_horas_planetarias(fecha, latitud, longitud) ==
    LET dia_semana == weekday(fecha)
        regente_dia == REGENTES_DIAS[dia_semana + 1]
        indice_inicio == IndiceDe(ORDEN_HORAS_PLANETARIAS, regente_dia)
    IN [k \in 1..12 |->
          LET i == k - 1
              indice_planeta == (indice_inicio + i) % 7
              planeta == ORDEN_HORAS_PLANETARIAS[indice_planeta + 1]
              hora_inicio == 6 + i
          IN [hora_inicio |-> hora_inicio,
              hora_fin    |-> hora_inicio + 1,
              planeta     |-> planeta,
              favorable   |-> planeta \in {"Júpiter", "Venus", "Sol"},
              tipo        |-> "diurna"]]

\* the first n elements of a list: lista[:n]
Primeros(lista, n) == SubSeq(lista, 1, Min(n, Len(lista)))

\* format(n, "02d")
Formato02d(n) == IF n < 10 THEN "0" \o ToString(n) ELSE ToString(n)

TextoHora(h) ==
    Formato02d(h.hora_inicio) \o ":00 - " \o Formato02d(h.hora_fin)
        \o ":00 (Hora de " \o h.planeta \o ")"

\* obtener_mejores_horas keeping four hours
obtener_mejores_horas_cuatro(fecha, lat, lon) ==
    LET horas == obtener_horas_planetarias(fecha, lat, lon)
        favorables == SelectSeq(horas,
                                LAMBDA h : h.favorable /\ h.tipo = "diurna")
        mejores == [k \in DOMAIN favorables |-> TextoHora(favorables[k])]
    IN Primeros(mejores, 4)

obtener_mejores_horas(fecha, lat, lon) ==
    LET horas == obtener_horas_planetarias(fecha, lat, lon)
        favorables == SelectSeq(horas,
                                LAMBDA h : h.favorable /\ h.tipo = "diurna")
        mejores == [k \in DOMAIN favorables |-> TextoHora(favorables[k])]
    IN Primeros(mejores, 3)

-----------------------------------------------------------------------------
(* Calendar dates.  The model works in year 0001 (not a leap year), where  *)
(* the ordinal of a date is its day of the year.                           *)

MESES == <<"Enero", "Febrero", "Marzo", "Abril", "Mayo", "Junio", "Julio",
           "Agosto", "Septiembre", "Octubre", "Noviembre", "Diciembre">>

DiasMes == <<31, 28, 31, 30, 31, 30, 31, 31, 30, 31, 30, 31>>

RECURSIVE DiasAntesDe(_)
DiasAntesDe(mes) == IF mes = 1 THEN 0 ELSE DiasAntesDe(mes - 1) + DiasMes[mes - 1]

\* year, month and day of the date with the given ordinal
Calendario(fecha) ==
    LET month == CHOOSE m \in 1..12 :
                    DiasAntesDe(m) < fecha /\ fecha <= DiasAntesDe(m) + DiasMes[m]
    IN [year |-> 1, month |-> month, day |-> fecha - DiasAntesDe(month)]

\* the "%Y-%m-%d" text of every date of the year
TextosDelAnio ==
    [fecha \in 1..365 |->
        LET c == Calendario(fecha) IN
        "000" \o ToString(c.year) \o "-" \o Formato02d(c.month)
            \o "-" \o Formato02d(c.day)]

\* datetime.strftime("%Y-%m-%d")
strftime(fecha) == TextosDelAnio[fecha]

\* whether datetime.strptime(texto, "%Y-%m-%d") returns (it raises a
\* ValueError otherwise)
EsFecha(texto) == \E f \in 1..365 : TextosDelAnio[f] = texto

\* datetime.strptime(texto, "%Y-%m-%d")
strptime(texto) == CHOOSE f \in 1..365 : TextosDelAnio[f] = texto

-----------------------------------------------------------------------------
(* calcular_electiva *)

RECURSIVE InsertarAntesDeIguales(_, _)
\* InsertarPorPuntaje with r put before the elements of its own puntaje
InsertarAntesDeIguales(ordenados, r) ==
    IF ordenados = <<>>
    THEN <<r>>
    ELSE IF Head(ordenados).puntaje > r.puntaje
    THEN <<Head(ordenados)>> \o InsertarAntesDeIguales(Tail(ordenados), r)
    ELSE <<r>> \o ordenados

RECURSIVE InsertarPorPuntaje(_, _)
\* r goes after every element whose puntaje is at least its own
InsertarPorPuntaje(ordenados, r) ==
    IF ordenados = <<>>
    THEN <<r>>
    ELSE IF Head(ordenados).puntaje >= r.puntaje
    THEN <<Head(ordenados)>> \o InsertarPorPuntaje(Tail(ordenados), r)
    ELSE <<r>> \o ordenados

\* OrdenarPorPuntaje leaving the list as it is
OrdenarPorPuntajeOmitido(lista) == lista

RECURSIVE OrdenarPorPuntaje(_)
\* list.sort(key=puntaje, reverse=True): descending and stable
OrdenarPorPuntaje(lista) ==
    IF lista = <<>>
    THEN <<>>
    ELSE InsertarPorPuntaje(
             OrdenarPorPuntaje(SubSeq(lista, 1, Len(lista) - 1)),
             lista[Len(lista)])

TIPOS_PROYECTO_get(key, default) ==
    IF key \in DOMAIN TIPOS_PROYECTO THEN TIPOS_PROYECTO[key] ELSE default

\* LimitarRango counting the start date among the 60 days
LimitarRangoCorto(fecha_desde, hasta) ==
    IF hasta - fecha_desde > 60 THEN fecha_desde + 59 ELSE hasta

LimitarRango(fecha_desde, hasta) ==
    IF hasta - fecha_desde > 60 THEN fecha_desde + 60 ELSE hasta

\* MejoresHorasSegunNivel keeping the hours of a day to avoid
MejoresHorasSinDescartar(nivel, mejores_horas) ==
    IF nivel = "caution"
    THEN <<"U+26A0 Si es urgente, evitar horas de Marte y Saturno">>
    ELSE mejores_horas

MejoresHorasSegunNivel(nivel, mejores_horas) ==
    IF nivel = "avoid"
    THEN <<>>
    ELSE IF nivel = "caution"
    THEN <<"U+26A0 Si es urgente, evitar horas de Marte y Saturno">>
    ELSE mejores_horas

ResultadoFecha(fecha, analisis_dia, mejores_horas) ==
    LET c == Calendario(fecha) IN
    [dia            |-> c.day,
     dia_semana     |-> DIAS_SEMANA[weekday(fecha) + 1],
     mes            |-> MESES[c.month] \o " " \o ToString(c.year),
     fecha_completa |-> strftime(fecha),
     puntaje        |-> analisis_dia.puntaje,
     nivel          |-> analisis_dia.nivel,
     factores       |-> analisis_dia.factores,
     mejores_horas  |-> mejores_horas]

HTTPException == [estado |-> "HTTPException", status_code |-> 500]

\* lines 793-809: parse the dates, limit the range, start the loop
Solicitar(s) ==
    /\ pc = "inicio"
    /\ solicitud' = s
    /\ IF ~EsFecha(s.fecha_desde) \/ ~EsFecha(s.fecha_hasta)
       THEN /\ pc' = "fin"
            /\ respuesta' = HTTPException
            /\ UNCHANGED <<fecha_hasta, fecha_actual, resultados>>
       ELSE LET fecha_desde == strptime(s.fecha_desde)
                hasta == strptime(s.fecha_hasta)
            IN /\ pc' = "bucle"
               /\ fecha_hasta' = LimitarRango(fecha_desde, hasta)
               /\ fecha_actual' = fecha_desde
               /\ resultados' = <<>>
               /\ UNCHANGED respuesta
    /\ UNCHANGED <<efemerides, analisis>>

\* lines 812-853: one iteration of the loop
AnalizarDia ==
    /\ pc = "bucle"
    /\ fecha_actual <= fecha_hasta
    /\ \E analisis_dia \in
             {calcular_puntaje_fecha(obtener_dia_juliano(fecha_actual),
                                     solicitud.tipo_proyecto,
                                     solicitud.latitud, solicitud.longitud)} :
          IF analisis_dia = Excepcion
          THEN \* line 882: except Exception
               /\ pc' = "fin"
               /\ respuesta' = HTTPException
               /\ UNCHANGED <<analisis, resultados, fecha_actual>>
          ELSE /\ analisis' = analisis_dia
               /\ resultados' =
                      Append(resultados,
                             ResultadoFecha(
                                 fecha_actual, analisis_dia,
                                 MejoresHorasSegunNivel(
                                     analisis_dia.nivel,
                                     obtener_mejores_horas(
                                         fecha_actual, solicitud.latitud,
                                         solicitud.longitud))))
               /\ fecha_actual' = fecha_actual + 1
               /\ UNCHANGED <<pc, respuesta>>
    /\ UNCHANGED <<efemerides, solicitud, fecha_hasta>>

\* lines 812, 855-880: the loop ends; sort, keep the best 10, answer
Responder ==
    /\ pc = "bucle"
    /\ fecha_actual > fecha_hasta
    /\ LET info_proyecto == TIPOS_PROYECTO_get(solicitud.tipo_proyecto,
                                               TIPOS_PROYECTO["otro"])
           ordenados == OrdenarPorPuntaje(resultados)
       IN /\ resultados' = ordenados
          /\ respuesta' = [estado           |-> "exito",
                           nombre           |-> solicitud.nombre,
                           tipo_proyecto    |-> solicitud.tipo_proyecto,
                           descripcion_tipo |-> info_proyecto.descripcion,
                           fechas           |-> Primeros(ordenados, 10)]
    /\ pc' = "fin"
    /\ UNCHANGED <<efemerides, solicitud, fecha_hasta, fecha_actual, analisis>>

\* score_instant: calcular_puntaje_fecha called on its own
Puntuar(dia_juliano, tipo_proyecto, lat, lon) ==
    /\ pc = "inicio"
    /\ solicitud' = [dia_juliano |-> dia_juliano,
                     tipo_proyecto |-> tipo_proyecto,
                     latitud |-> lat, longitud |-> lon]
    /\ analisis' = calcular_puntaje_fecha(dia_juliano, tipo_proyecto, lat, lon)
    /\ pc' = "puntuado"
    /\ UNCHANGED <<efemerides, fecha_hasta, fecha_actual, resultados,
                   respuesta>>

\* obtener_fase_lunar called on its own
ObservarFase(dia_juliano) ==
    /\ pc = "inicio"
    /\ solicitud' = [dia_juliano |-> dia_juliano]
    /\ analisis' = obtener_fase_lunar(dia_juliano)
    /\ pc' = "fase"
    /\ UNCHANGED <<efemerides, fecha_hasta, fecha_actual, resultados,
                   respuesta>>

\* calcular_aspecto called on its own
ObservarAspecto(dia_juliano, planeta1, planeta2) ==
    /\ pc = "inicio"
    /\ solicitud' = [dia_juliano |-> dia_juliano, planeta1 |-> planeta1,
                     planeta2 |-> planeta2]
    /\ analisis' = calcular_aspecto(dia_juliano, planeta1, planeta2)
    /\ pc' = "aspecto"
    /\ UNCHANGED <<efemerides, fecha_hasta, fecha_actual, resultados,
                   respuesta>>

\* esta_luna_vacia_de_curso called on its own
ObservarVaciaDeCurso(dia_juliano) ==
    /\ pc = "inicio"
    /\ solicitud' = [dia_juliano |-> dia_juliano]
    /\ analisis' = [vacia |-> esta_luna_vacia_de_curso(dia_juliano)]
    /\ pc' = "vacia"
    /\ UNCHANGED <<efemerides, fecha_hasta, fecha_actual, resultados,
                   respuesta>>

\* esta_en_via_combusta called on its own
ObservarViaCombusta(longitud) ==
    /\ pc = "inicio"
    /\ solicitud' = [longitud |-> longitud]
    /\ analisis' = [combusta |-> esta_en_via_combusta(longitud)]
    /\ pc' = "combusta"
    /\ UNCHANGED <<efemerides, fecha_hasta, fecha_actual, resultados,
                   respuesta>>

-----------------------------------------------------------------------------
(* The environment: the skies the ephemeris may describe and the requests  *)
(* a caller may send.                                                      *)

MaxInicio == 2      \* requests start on dates 1..MaxInicio
MaxCorto == 2       \* short windows span -MaxCorto..MaxCorto days
MaxExceso == 1      \* long windows span 60-MaxExceso..60+MaxExceso days
MaxFallos == 3      \* number of failure patterns of the scanned ephemerides

\* a sky given by the Moon and the offsets of the other bodies from it
Cielo(luna, v_luna, d_sol, v_mercurio, d_venus, d_marte, d_jupiter, d_saturno, fallos) ==
    [lon0 |-> [p \in Cuerpos |->
                 (luna + CASE p = swe.SUN     -> d_sol
                           [] p = swe.MOON    -> 0
                           [] p = swe.MERCURY -> 47000
                           [] p = swe.VENUS   -> d_venus
                           [] p = swe.MARS    -> d_marte
                           [] p = swe.JUPITER -> d_jupiter
                           [] p = swe.SATURN  -> d_saturno) % 360000],
     vel  |-> [p \in Cuerpos |->
                 CASE p = swe.SUN     -> 986
                   [] p = swe.MOON    -> v_luna
                   [] p = swe.MERCURY -> v_mercurio
                   [] p = swe.VENUS   -> 1200
                   [] p = swe.MARS    -> 524
                   [] p = swe.JUPITER -> 83
                   [] p = swe.SATURN  -> 33],
     fallos |-> fallos]

\* Moon: plain sign, favourable sign, Via Combusta, Via Combusta in the
\* last degrees of the sign, and the two ends of the Via Combusta
LunasPuntaje == {10000, 40000, 200000, 208500}
VelocidadesLuna == {13176, 0}
VelocidadesMercurio == {1383, -800}
\* Sun behind the Moon (waxing) or ahead of it (waning), with and without
\* a trine or sextile
DesfasesSol == {-30000, -60000, 30000}
DesfasesVenus == {40000, -55000}
DesfasesMarte == {35000, 175000}
DesfasesJupiter == {40000, 2000, 95000, 120000}
DesfasesSaturno == {150000, 5000}

\* the bodies that are unavailable (on even Julian days): every subset of
\* Sun, Moon, Mercury, Mars and Jupiter, and all seven bodies
FallosPuntaje ==
    {{<<0, p>> : p \in c} :
        c \in SUBSET {swe.SUN, swe.MOON, swe.MERCURY, swe.MARS, swe.JUPITER}
               \cup {Cuerpos}}

CielosPuntaje ==
    {Cielo(luna, v_luna, d_sol, v_mercurio, d_venus, d_marte, d_jupiter,
           d_saturno, fallos) :
        luna \in LunasPuntaje, v_luna \in VelocidadesLuna,
        d_sol \in DesfasesSol, v_mercurio \in VelocidadesMercurio,
        d_venus \in DesfasesVenus, d_marte \in DesfasesMarte,
        d_jupiter \in DesfasesJupiter, d_saturno \in DesfasesSaturno,
        fallos \in FallosPuntaje}

\* failure patterns of the scanned ephemerides: none, then bodies missing
\* on alternate days
PatronesFallos ==
    <<{},
      {<<q, p>> : q \in {1}, p \in Cuerpos},
      {<<0, swe.MOON>>, <<0, swe.MERCURY>>, <<1, swe.SUN>>},
      {<<0, swe.MERCURY>>, <<1, swe.MERCURY>>, <<1, swe.JUPITER>>},
      {<<q, p>> : q \in {0, 1}, p \in Cuerpos}>>

\* three skies of date 1: the Moon in Via Combusta with Mercury retrograde,
\* a sky with many favourable aspects, and one with none
CielosBase ==
    {Cielo(200000, 13176, -30000, -800, 40000, 35000, 40000, 150000, {}),
     Cielo(40000, 13176, -60000, 1383, 120000, 35000, 2000, 150000, {}),
     Cielo(100000, 12000, 90000, 1383, 200000, 300000, 20000, 250000, {})}

Efemerides ==
    {[c EXCEPT !.fallos = PatronesFallos[k]] :
        c \in CielosBase, k \in 1..Min(MaxFallos, Len(PatronesFallos))}

TiposSolicitud == {"negocio", "desconocido"}
Ubicaciones == {<<-12046, -77043>>, <<40417, -3703>>}

\* the callers: a known project type from Lima, an unknown one from Madrid
Perfiles == {<<"negocio", <<-12046, -77043>>>>,
             <<"desconocido", <<40417, -3703>>>>}

Duraciones ==
    (-MaxCorto..MaxCorto) \cup ((60 - MaxExceso)..(60 + MaxExceso)) \cup {9, 10}

TextosFecha(desde) ==
    {strftime(desde + d) : d \in {x \in Duraciones : desde + x >= 1}}
        \cup {"2026-13-45"}

Solicitudes ==
    {[nombre        |-> "Carlos",
      tipo_proyecto |-> perfil[1],
      fecha_desde   |-> strftime(desde),
      fecha_hasta   |-> hasta,
      latitud       |-> perfil[2][1],
      longitud      |-> perfil[2][2]] :
        perfil \in Perfiles,
        <<desde, hasta>> \in UNION {{<<d, h>> : h \in TextosFecha(d)} :
                                       d \in 1..MaxInicio}}

Sin == [sin |-> TRUE]

Init ==
    /\ efemerides \in Efemerides
    /\ pc = "inicio"
    /\ solicitud = Sin
    /\ fecha_hasta = 0
    /\ fecha_actual = 0
    /\ analisis = Sin
    /\ resultados = <<>>
    /\ respuesta = Sin

Next ==
    \/ \E s \in Solicitudes : Solicitar(s)
    \/ AnalizarDia
    \/ Responder

Spec == Init /\ [][Next]_vars

InitPuntaje ==
    /\ efemerides \in CielosPuntaje
    /\ pc = "inicio"
    /\ solicitud = Sin
    /\ fecha_hasta = 0
    /\ fecha_actual = 0
    /\ analisis = Sin
    /\ resultados = <<>>
    /\ respuesta = Sin

NextPuntaje ==
    \E tipo_proyecto \in TiposSolicitud, u \in Ubicaciones :
        Puntuar(obtener_dia_juliano(1), tipo_proyecto, u[1], u[2])

SpecPuntaje == InitPuntaje /\ [][NextPuntaje]_vars

\* Sun-Moon separations on both sides of every phase boundary
SeparacionesFase ==
    UNION {{k * 45000, k * 45000 + 1, k * 45000 + 22500, k * 45000 + 44999} :
              k \in 0..7}

\* separations on both sides of every orb boundary of the aspect table,
\* and their mirror images beyond 180 degrees
SeparacionesAspecto ==
    LET arcos == UNION {{a.angulo - a.orbe - 1, a.angulo - a.orbe,
                         a.angulo - 999, a.angulo - 1000, a.angulo,
                         a.angulo + 999, a.angulo + 1000,
                         a.angulo + a.orbe, a.angulo + a.orbe + 1} :
                           a \in {aspectos[i] : i \in DOMAIN aspectos}}
                   \cup {30000, 45000, 150000}
    IN {d \in arcos : 0 <= d /\ d <= 180000}
          \cup {360000 - d : d \in {x \in arcos : 0 < x /\ x < 180000}}

\* longitudes around the two ends of the Via Combusta
LongitudesCombusta ==
    {0, 194999, 195000, 195001, 210000, 224999, 225000, 225001, 359999}

\* skies for the phase and the aspect of Sun and Moon: the Moon at the start
\* of the zodiac or inside it, the Sun at every separation of interest
CielosSolLuna ==
    {Cielo(luna, 13176, (0 - d) % 360000, 1383, 40000, 35000, 40000, 150000,
           {<<0, p>> : p \in c}) :
        luna \in {0, 200000},
        d \in SeparacionesFase \cup SeparacionesAspecto,
        c \in {{}, {swe.SUN}, {swe.MOON}}}

\* skies for the Via Combusta rule: the Moon around the two ends, available
\* or not
CielosCombusta ==
    {Cielo(luna, 13176, -30000, 1383, 40000, 35000, 40000, 150000,
           {<<0, p>> : p \in c}) :
        luna \in LongitudesCombusta, c \in {{}, {swe.MOON}}}

\* the six bodies esta_luna_vacia_de_curso scans
Planetas == Cuerpos \ {swe.MOON}

\* a sky with the Moon at luna and every other body p at the offset
\* desfases[p] from it
CieloDesfasado(luna, v_luna, desfases, fallos) ==
    [Cielo(luna, v_luna, desfases[swe.SUN], 1383, desfases[swe.VENUS],
           desfases[swe.MARS], desfases[swe.JUPITER], desfases[swe.SATURN],
           fallos)
       EXCEPT !.lon0[swe.MERCURY] = (luna + desfases[swe.MERCURY]) % 360000]

\* offsets from the Moon: no aspect, inside the 3-degree orb of the sextile,
\* and on the edge of the 3-degree orb of the square
DesfasesVaciaDeCurso ==
    [sin_orbe |-> 40000, en_orbe |-> 62999, borde_orbe |-> 93000]

\* the sets of bodies inside the orb: none, one, two, or all six
EnAspecto ==
    {c \in SUBSET Planetas : Cardinality(c) <= 2} \cup {Planetas}

\* skies for the void-of-course test: the Moon on both sides of degree 27,
\* direct, stationary or retrograde; a set of bodies inside the orb, or
\* one body on its edge; nothing unavailable, the Moon unavailable, or the
\* Sun and Jupiter unavailable
CielosVaciaDeCurso ==
    {CieloDesfasado(luna, v_luna, desfases, {<<0, p>> : p \in c}) :
        luna \in {27000, 27001, 359999},
        v_luna \in {13176, 0, -500},
        desfases \in {[p \in Planetas |->
                         IF p \in e
                         THEN DesfasesVaciaDeCurso.en_orbe
                         ELSE DesfasesVaciaDeCurso.sin_orbe] :
                        e \in EnAspecto}
                       \cup {[p \in Planetas |->
                                 IF p = q
                                 THEN DesfasesVaciaDeCurso.borde_orbe
                                 ELSE DesfasesVaciaDeCurso.sin_orbe] :
                                q \in Planetas},
        c \in {{}, {swe.MOON}, {swe.SUN, swe.JUPITER}}}

CielosAstros == CielosSolLuna \cup CielosCombusta \cup CielosVaciaDeCurso

InitAstros ==
    /\ efemerides \in CielosAstros
    /\ pc = "inicio"
    /\ solicitud = Sin
    /\ fecha_hasta = 0
    /\ fecha_actual = 0
    /\ analisis = Sin
    /\ resultados = <<>>
    /\ respuesta = Sin

NextAstros ==
    \/ ObservarFase(obtener_dia_juliano(1))
    \/ \E planeta1, planeta2 \in {swe.SUN, swe.MOON} :
          ObservarAspecto(obtener_dia_juliano(1), planeta1, planeta2)
    \/ ObservarVaciaDeCurso(obtener_dia_juliano(1))
    \/ \E longitud \in LongitudesCombusta : ObservarViaCombusta(longitud)
    \/ Puntuar(obtener_dia_juliano(1), "negocio", -12046, -77043)

SpecAstros == InitAstros /\ [][NextAstros]_vars

-----------------------------------------------------------------------------
(* Properties *)

Niveles == {"excellent", "good", "caution", "avoid"}

\* the request's dates, once they are known to parse
FechasValidas == EsFecha(solicitud.fecha_desde) /\ EsFecha(solicitud.fecha_hasta)
Desde == strptime(solicitud.fecha_desde)
Hasta == strptime(solicitud.fecha_hasta)

\* C1: the score returned by calcular_puntaje_fecha is an integer in
\* [0,100]: a total below 0 is returned as 0, a total above 100 as 100, and
\* a total inside [0,100] unchanged.
C1_PuntajeAcotado ==
    pc = "puntuado" =>
        LET total == Acumulado(solicitud.dia_juliano).puntaje IN
        /\ analisis.puntaje \in 0..100
        /\ total < 0 => analisis.puntaje = 0
        /\ total > 100 => analisis.puntaje = 100
        /\ total \in 0..100 => analisis.puntaje = total

\* a total below 0 was returned as 0
C1_Testigo ==
    /\ pc = "puntuado"
    /\ Acumulado(solicitud.dia_juliano).puntaje < 0
    /\ analisis.puntaje = 0

\* a total above 100 was returned as 100
C1_TestigoTecho ==
    /\ pc = "puntuado"
    /\ Acumulado(solicitud.dia_juliano).puntaje > 100
    /\ analisis.puntaje = 100

\* C2: the level is a function of the clamped score alone: 0-39 avoid,
\* 40-59 caution, 60-79 good, 80-100 excellent.
C2_NivelPorPuntaje ==
    pc = "puntuado" =>
        \/ analisis.puntaje \in 0..39 /\ analisis.nivel = "avoid"
        \/ analisis.puntaje \in 40..59 /\ analisis.nivel = "caution"
        \/ analisis.puntaje \in 60..79 /\ analisis.nivel = "good"
        \/ analisis.puntaje \in 80..100 /\ analisis.nivel = "excellent"

\* a score on the lowest value of the top band
C2_Testigo ==
    pc = "puntuado" /\ analisis.puntaje = 80 /\ analisis.nivel = "excellent"

PuntajeDelDia(fecha) ==
    calcular_puntaje_fecha(obtener_dia_juliano(fecha), solicitud.tipo_proyecto,
                           solicitud.latitud, solicitud.longitud).puntaje

\* the dates returned are the best of the days scanned
MejoresDiez(fechas, dias) ==
        LET devuelto(d) == \E i \in DOMAIN fechas :
                              fechas[i].fecha_completa = strftime(d)
        IN /\ Len(fechas) <= 10
           /\ Len(fechas) = Min(10, Cardinality(dias))
           /\ \A i \in 1..(Len(fechas) - 1) :
                 fechas[i].puntaje >= fechas[i + 1].puntaje
           /\ \A i, j \in DOMAIN fechas :
                 i # j => fechas[i].fecha_completa # fechas[j].fecha_completa
           /\ \A i \in DOMAIN fechas :
                 \E d \in dias : /\ fechas[i].fecha_completa = strftime(d)
                                 /\ fechas[i].puntaje = PuntajeDelDia(d)
           /\ \A d \in dias :
                 ~devuelto(d) =>
                     \A i \in DOMAIN fechas :
                        PuntajeDelDia(d) <= fechas[i].puntaje

\* C3: calcular_electiva returns at most 10 dates, in non-increasing score
\* order, and they are the top of the scan: min(10, days scanned) dates,
\* each scanned day at most once, and no scanned day left out scores
\* strictly more than a returned day.
C3_MejoresDiez ==
    (pc = "fin" /\ respuesta.estado = "exito") =>
        MejoresDiez(respuesta.fechas, Desde..fecha_hasta)

\* more than 10 days were scanned, with different scores, and 10 came back
C3_Testigo ==
    /\ pc = "fin"
    /\ respuesta.estado = "exito"
    /\ Len(resultados) > 10
    /\ Len(respuesta.fechas) = 10
    /\ respuesta.fechas[1].puntaje > respuesta.fechas[10].puntaje
    /\ \E i \in DOMAIN resultados :
          resultados[i].puntaje < respuesta.fechas[10].puntaje

\* the days scanned are those from desde to fin, in order
RangoEsperado(desde, fin) ==
        /\ fecha_hasta = fin
        /\ pc = "bucle" =>
              /\ Len(resultados) = fecha_actual - desde
              /\ \A i \in DOMAIN resultados :
                    resultados[i].fecha_completa = strftime(desde + i - 1)
        /\ pc = "fin" =>
              /\ respuesta.estado = "exito"
              /\ Len(resultados) = Cardinality(desde..fin)
              /\ {resultados[i].fecha_completa : i \in DOMAIN resultados}
                     = {strftime(d) : d \in desde..fin}

RangoLimitado(desde, hasta) ==
    RangoEsperado(desde, IF hasta - desde > 60 THEN desde + 60 ELSE hasta)

\* C4: a window of more than 60 days does not fail: the end date becomes
\* start+60 and exactly the days start..start+60 are scanned, each once and
\* in ascending order; a window of 60 days or less keeps its end date and
\* every day from start to end is scanned.
C4_RangoLimitado ==
    (pc \in {"bucle", "fin"} /\ FechasValidas) => RangoLimitado(Desde, Hasta)

\* a window of more than 60 days was answered with its 61 days scanned
C4_Testigo ==
    /\ pc = "fin"
    /\ FechasValidas
    /\ Hasta - Desde > 60
    /\ respuesta.estado = "exito"
    /\ Len(resultados) = 61

TextosMercurio ==
    {"U+263F Mercurio Retrógrado U+211E", "U+263F Mercurio Directo"}

FactoresMercurio(factores) ==
    SelectSeq(factores, LAMBDA f : f.texto \in TextosMercurio)

\* the total of the rules other than the Mercury rule
AcumuladoSinMercurio(dia_juliano) ==
    ReglasDeAspectos(ReglasLunares(Base, dia_juliano), dia_juliano)

\* C5: the Mercury rule fires exactly once when Mercury's position is
\* available (retrograde: -20 and one negative factor; direct: +10 and one
\* positive factor) and is skipped entirely when it is unavailable: no
\* weight applied and no Mercury factor appended.
C5_ReglaMercurio ==
    pc = "puntuado" =>
        LET dj == solicitud.dia_juliano
            mercurio == obtener_posicion_planeta(dj, swe.MERCURY)
            total == Acumulado(dj).puntaje
            resto == AcumuladoSinMercurio(dj).puntaje
            fm == FactoresMercurio(analisis.factores)
        IN IF mercurio = None
           THEN fm = <<>> /\ total = resto
           ELSE IF mercurio.retrogrado
           THEN /\ fm = <<[texto |-> "U+263F Mercurio Retrógrado U+211E",
                           tipo |-> "negative"]>>
                /\ total = resto - 20
           ELSE /\ fm = <<[texto |-> "U+263F Mercurio Directo",
                           tipo |-> "positive"]>>
                /\ total = resto + 10

\* C6: a request whose end date is earlier than its start date is surfaced
\* to the caller as a failure, not answered with a successful response.
C6_RangoInvertidoFalla ==
    (pc = "fin" /\ FechasValidas /\ Hasta < Desde) =>
        respuesta = HTTPException

\* C7: a failing position lookup, of any bodies, never fails or shrinks a
\* scan: the day still gets a score, a level and a factor list, and is
\* among the collected results.
C7_FalloNoDescartaDia ==
    (pc \in {"bucle", "fin"} /\ FechasValidas) =>
        /\ respuesta # HTTPException
        /\ pc = "bucle" =>
              /\ Len(resultados) = fecha_actual - Desde
              /\ resultados # <<>> =>
                    LET r == resultados[Len(resultados)] IN
                    /\ r.fecha_completa = strftime(fecha_actual - 1)
                    /\ r.puntaje \in 0..100
                    /\ r.nivel \in Niveles
                    /\ Len(r.factores) >= 1
        /\ pc = "fin" => Len(resultados) = Cardinality(Desde..fecha_hasta)

\* the day just scanned had every position unavailable and is in the list
C7_Testigo ==
    /\ pc = "bucle"
    /\ resultados # <<>>
    /\ \A p \in Cuerpos :
          obtener_posicion_planeta(obtener_dia_juliano(fecha_actual - 1), p)
              = None
    /\ resultados[Len(resultados)].fecha_completa = strftime(fecha_actual - 1)
    /\ resultados[Len(resultados)].nivel \in Niveles

SinAspecto(dia_juliano, planeta1, planeta2) ==
    calcular_aspecto(dia_juliano, planeta1, planeta2) = None

\* what the baseline and the afflicted scenario share: Moon waxing and not
\* void-of-course, Mercury available, no aspect of the Moon with Jupiter,
\* Venus, Mars or Saturn, Moon outside the favourable signs, no Sun-Moon
\* trine or sextile
EscenarioComun(dia_juliano) ==
    LET luna == obtener_posicion_planeta(dia_juliano, swe.MOON)
        sol_luna == calcular_aspecto(dia_juliano, swe.SUN, swe.MOON)
    IN /\ luna # None
       /\ obtener_posicion_planeta(dia_juliano, swe.SUN) # None
       /\ obtener_posicion_planeta(dia_juliano, swe.MERCURY) # None
       /\ obtener_fase_lunar(dia_juliano).creciente
       /\ ~esta_luna_vacia_de_curso(dia_juliano)
       /\ SinAspecto(dia_juliano, swe.MOON, swe.JUPITER)
       /\ SinAspecto(dia_juliano, swe.MOON, swe.VENUS)
       /\ SinAspecto(dia_juliano, swe.MOON, swe.MARS)
       /\ SinAspecto(dia_juliano, swe.MOON, swe.SATURN)
       /\ luna.signo \notin {"Tauro", "Cáncer", "Virgo", "Capricornio",
                             "Piscis"}
       /\ sol_luna # None => sol_luna.aspecto \notin {"Trígono", "Sextil"}

EscenarioBase(dia_juliano) ==
    /\ EscenarioComun(dia_juliano)
    /\ LET longitud ==
               obtener_posicion_planeta(dia_juliano, swe.MOON).longitud
       IN longitud < 195000 \/ longitud > 225000
    /\ ~obtener_posicion_planeta(dia_juliano, swe.MERCURY).retrogrado

EscenarioAfligido(dia_juliano) ==
    /\ EscenarioComun(dia_juliano)
    /\ LET longitud ==
               obtener_posicion_planeta(dia_juliano, swe.MOON).longitud
       IN 195000 <= longitud /\ longitud <= 225000
    /\ obtener_posicion_planeta(dia_juliano, swe.MERCURY).retrogrado

\* C8: in the baseline scenario calcular_puntaje_fecha returns score 75 and
\* level 'good' with exactly two factors, the phase and then Mercury direct.
C8_EscenarioBase ==
    (pc = "puntuado" /\ EscenarioBase(solicitud.dia_juliano)) =>
        /\ analisis.puntaje = 75
        /\ analisis.nivel = "good"
        /\ Len(analisis.factores) = 2
        /\ analisis.factores[1] =
               [texto |-> "U+263D Luna "
                          \o obtener_fase_lunar(solicitud.dia_juliano).fase,
                tipo |-> "positive"]
        /\ analisis.factores[2] =
               [texto |-> "U+263F Mercurio Directo", tipo |-> "positive"]

\* the baseline scenario was scored
C8_Testigo ==
    /\ pc = "puntuado"
    /\ EscenarioBase(solicitud.dia_juliano)
    /\ analisis.puntaje = 75

\* C9: in the afflicted scenario (the baseline with Mercury retrograde and
\* the Moon in Via Combusta) the score is 25, the level 'avoid', and the
\* day's entry of calcular_electiva has an empty best-hours list.
C9_EscenarioAfligido ==
    (pc = "bucle" /\ resultados # <<>>
        /\ EscenarioAfligido(obtener_dia_juliano(fecha_actual - 1))) =>
        LET r == resultados[Len(resultados)] IN
        /\ analisis.puntaje = 25
        /\ analisis.nivel = "avoid"
        /\ r.fecha_completa = strftime(fecha_actual - 1)
        /\ r.puntaje = 25
        /\ r.nivel = "avoid"
        /\ r.mejores_horas = <<>>

\* a day in the afflicted scenario was scanned
C9_Testigo ==
    /\ pc = "bucle"
    /\ resultados # <<>>
    /\ EscenarioAfligido(obtener_dia_juliano(fecha_actual - 1))
    /\ resultados[Len(resultados)].mejores_horas = <<>>

\* project types and places a second caller might have sent
OtrosTipos == {"negocio", "otro", "desconocido"}
OtrasUbicaciones == Ubicaciones

\* C10: the project-type key and the coordinates do not influence scoring:
\* any other key and coordinates give the same score, level and factors for
\* the same instant; an unknown key makes calcular_electiva use the 'otro'
\* entry for the description instead of failing.
C10_TipoYLugarInertes ==
    /\ (pc = "bucle" /\ resultados # <<>>) =>
           \A tipo \in OtrosTipos, u \in OtrasUbicaciones :
              calcular_puntaje_fecha(obtener_dia_juliano(fecha_actual - 1),
                                     tipo, u[1], u[2]) = analisis
    /\ (pc = "fin" /\ FechasValidas
           /\ solicitud.tipo_proyecto \notin DOMAIN TIPOS_PROYECTO) =>
           /\ respuesta # HTTPException
           /\ respuesta.descripcion_tipo = "Proyecto General"

\* a request with an unknown project type was answered after scanning days
C10_Testigo ==
    /\ pc = "fin"
    /\ FechasValidas
    /\ solicitud.tipo_proyecto \notin DOMAIN TIPOS_PROYECTO
    /\ respuesta.estado = "exito"
    /\ respuesta.descripcion_tipo = "Proyecto General"
    /\ Len(respuesta.fechas) > 0

\* the longitude the ephemeris gives for a body, when it gives one
Disponible(dia_juliano, planeta) == swe_calc_ut(dia_juliano, planeta) # None
Longitud(dia_juliano, planeta) == swe_calc_ut(dia_juliano, planeta).lon

FASES == <<"Nueva", "Creciente", "Cuarto Creciente", "Gibosa Creciente",
           "Llena", "Gibosa Menguante", "Cuarto Menguante", "Menguante">>

\* (Moon longitude - Sun longitude) mod 360
SeparacionSolLuna(dia_juliano) ==
    (Longitud(dia_juliano, swe.MOON) - Longitud(dia_juliano, swe.SUN))
        % 360000

FaseSegunBanda(fase, separacion) ==
    /\ separacion \in 0..359999
    /\ separacion \div 45000 \in 0..7
    /\ fase.fase = FASES[(separacion \div 45000) + 1]
    /\ \A k \in 1..8 : fase.fase = FASES[k] => k = (separacion \div 45000) + 1
    /\ fase.creciente = (separacion \div 45000 <= 3)
    /\ fase.creciente = (separacion < 180000)
    /\ separacion = 0 => fase.fase = "Nueva" /\ fase.creciente
    /\ separacion >= 359000 => fase.fase = "Menguante" /\ ~fase.creciente

\* C11: obtener_fase_lunar classifies every Sun-Moon separation in [0,360)
\* into exactly one of the 8 phases, the one of band floor(separation/45)
\* in the order Nueva .. Menguante; the waxing flag is true exactly for
\* bands 0-3; separation 0 is Nueva/waxing and a separation just below 360
\* is Menguante/not waxing.
C11_FasePorBanda ==
    (pc = "fase" /\ Disponible(solicitud.dia_juliano, swe.SUN)
                 /\ Disponible(solicitud.dia_juliano, swe.MOON)) =>
        FaseSegunBanda(analisis, SeparacionSolLuna(solicitud.dia_juliano))

\* a separation on the boundary between waxing and waning was classified
C11_Testigo ==
    /\ pc = "fase"
    /\ Disponible(solicitud.dia_juliano, swe.SUN)
    /\ Disponible(solicitud.dia_juliano, swe.MOON)
    /\ SeparacionSolLuna(solicitud.dia_juliano) = 180000
    /\ analisis.fase = "Llena"
    /\ ~analisis.creciente

\* the canonical angles with their names and orbs, in ascending order
ANGULOS == <<0, 60000, 90000, 120000, 180000>>
ORBES == <<8000, 6000, 7000, 8000, 8000>>
NOMBRES == <<"Conjunción", "Sextil", "Cuadratura", "Trígono", "Oposición">>

\* the separation of two longitudes: the absolute difference, replaced by
\* 360 minus itself when above 180
Separacion(lon1, lon2) ==
    IF Abs(lon1 - lon2) > 180000
    THEN 360000 - Abs(lon1 - lon2)
    ELSE Abs(lon1 - lon2)

\* the canonical angles whose orb holds the separation
Candidatos(separacion) ==
    {i \in 1..5 : Abs(separacion - ANGULOS[i]) <= ORBES[i]}

PrimerCandidato(separacion) ==
    CHOOSE i \in Candidatos(separacion) :
        \A j \in Candidatos(separacion) : i <= j

AspectoSegunTabla(aspecto, separacion) ==
    /\ separacion \in 0..180000
    /\ IF Candidatos(separacion) = {}
       THEN aspecto = None
       ELSE /\ aspecto # None
            /\ aspecto.angulo = ANGULOS[PrimerCandidato(separacion)]
            /\ aspecto.aspecto = NOMBRES[PrimerCandidato(separacion)]
            /\ aspecto.orbe = Abs(separacion - aspecto.angulo)
            /\ aspecto.exacto = (Abs(separacion - aspecto.angulo) < 1000)

\* C12: the separation calcular_aspecto uses lies in [0,180]; the result is
\* the first angle of 0, 60, 90, 120, 180 whose distance to the separation
\* is at most its orb (8, 6, 7, 8, 8, inclusive), with orb = that distance
\* and exact = (distance < 1); it is 'no aspect' when no angle qualifies or
\* when either position is unavailable.
C12_AspectoPorOrbe ==
    pc = "aspecto" =>
        IF /\ Disponible(solicitud.dia_juliano, solicitud.planeta1)
           /\ Disponible(solicitud.dia_juliano, solicitud.planeta2)
        THEN AspectoSegunTabla(
                 analisis,
                 Separacion(Longitud(solicitud.dia_juliano, solicitud.planeta1),
                            Longitud(solicitud.dia_juliano, solicitud.planeta2)))
        ELSE analisis = None

\* two longitudes more than 180 degrees apart, on the edge of the orb of
\* the sextile
C12_Testigo ==
    /\ pc = "aspecto"
    /\ Disponible(solicitud.dia_juliano, solicitud.planeta1)
    /\ Disponible(solicitud.dia_juliano, solicitud.planeta2)
    /\ Abs(Longitud(solicitud.dia_juliano, solicitud.planeta1)
             - Longitud(solicitud.dia_juliano, solicitud.planeta2)) = 294000
    /\ analisis # None
    /\ analisis.aspecto = "Sextil"
    /\ analisis.orbe = 6000
    /\ ~analisis.exacto

\* the total and the factors of the rules other than the Via Combusta rule
AcumuladoSinViaCombusta(dia_juliano) ==
    ReglasDeAspectos(
        ReglaMercurio(
            ReglaVaciaDeCurso(ReglaFaseLunar(Base, dia_juliano), dia_juliano),
            dia_juliano),
        dia_juliano)

Negativos(factores) == SelectSeq(factores, LAMBDA f : f.tipo = "negative")

\* con is sin after one more rule of weight -20 and one negative factor
UnaReglaNegativa(con, sin) ==
    /\ con.puntaje = sin.puntaje - 20
    /\ Len(con.factores) = Len(sin.factores) + 1
    /\ Len(Negativos(con.factores)) = Len(Negativos(sin.factores)) + 1

EnViaCombusta(longitud) == 195000 <= longitud /\ longitud <= 225000

\* C13: esta_en_via_combusta(L) is true exactly when 195 <= L <= 225, both
\* ends included (195.0, 210.0, 224.999, 225.0 true; 194.999, 225.001
\* false); in calcular_puntaje_fecha the Via Combusta rule fires, with
\* weight -20 and exactly one negative factor, exactly when the Moon is
\* available and its longitude satisfies the predicate, and not otherwise.
C13_ViaCombusta ==
    /\ pc = "combusta" =>
          /\ analisis.combusta = EnViaCombusta(solicitud.longitud)
          /\ solicitud.longitud \in {195000, 210000, 224999, 225000}
                => analisis.combusta
          /\ solicitud.longitud \in {194999, 225001} => ~analisis.combusta
    /\ pc = "puntuado" =>
          IF /\ Disponible(solicitud.dia_juliano, swe.MOON)
             /\ EnViaCombusta(Longitud(solicitud.dia_juliano, swe.MOON))
          THEN UnaReglaNegativa(
                   Acumulado(solicitud.dia_juliano),
                   AcumuladoSinViaCombusta(solicitud.dia_juliano))
          ELSE Acumulado(solicitud.dia_juliano)
                   = AcumuladoSinViaCombusta(solicitud.dia_juliano)

\* a Moon on the upper end of the Via Combusta was scored with the rule
C13_Testigo ==
    /\ pc = "puntuado"
    /\ Disponible(solicitud.dia_juliano, swe.MOON)
    /\ Longitud(solicitud.dia_juliano, swe.MOON) = 225000
    /\ Acumulado(solicitud.dia_juliano).puntaje
           = AcumuladoSinViaCombusta(solicitud.dia_juliano).puntaje - 20
    /\ analisis.factores
           # AcumuladoSinViaCombusta(solicitud.dia_juliano).factores

\* the total and the factors of the rules other than the Moon-Jupiter rule
AcumuladoSinLunaJupiter(dia_juliano) ==
    ReglaSolLuna(
        ReglaSignoLunar(
            ReglaLunaSaturno(
                ReglaLunaMarte(
                    ReglaLunaVenus(
                        ReglaMercurio(ReglasLunares(Base, dia_juliano),
                                      dia_juliano),
                        dia_juliano),
                    dia_juliano),
                dia_juliano),
            dia_juliano),
        dia_juliano)

DeTipo(factores, tipo) == SelectSeq(factores, LAMBDA f : f.tipo = tipo)

\* con is sin after one more rule of the given weight and one factor of the
\* given polarity
UnaReglaMas(con, sin, peso, tipo) ==
    /\ con.puntaje = sin.puntaje + peso
    /\ Len(con.factores) = Len(sin.factores) + 1
    /\ Len(DeTipo(con.factores, tipo)) = Len(DeTipo(sin.factores, tipo)) + 1

\* the entry of the weight table for a harmonious Moon-Jupiter aspect
PesoLunaJupiter(aspecto) ==
    CASE aspecto = "Conjunción" -> PESOS.luna_conjuncion_jupiter
      [] aspecto = "Trígono"    -> PESOS.luna_trigono_jupiter
      [] aspecto = "Sextil"     -> PESOS.luna_sextil_jupiter

ReglaLunaJupiterEsperada(con, sin, aspecto) ==
    IF aspecto = None
    THEN con = sin
    ELSE IF aspecto.aspecto \in {"Conjunción", "Trígono", "Sextil"}
    THEN /\ UnaReglaMas(con, sin, PesoLunaJupiter(aspecto.aspecto),
                        "positive")
         /\ aspecto.aspecto \in {"Conjunción", "Trígono"} =>
                con.puntaje - sin.puntaje = 15
         /\ aspecto.aspecto = "Sextil" => con.puntaje - sin.puntaje = 12
    ELSE UnaReglaMas(con, sin, -5, "neutral")

\* C14: a harmonious Moon-Jupiter aspect adds its own entry of the weight
\* table, so a Conjunction or a Trine adds 15 and a Sextil 12, with one
\* positive factor; a Square or Opposition subtracts 5 with one neutral
\* factor; no aspect changes neither score nor factors.
C14_PesoLunaJupiter ==
    pc = "puntuado" =>
        ReglaLunaJupiterEsperada(
            Acumulado(solicitud.dia_juliano),
            AcumuladoSinLunaJupiter(solicitud.dia_juliano),
            calcular_aspecto(solicitud.dia_juliano, swe.MOON, swe.JUPITER))

\* every order in which the six bodies can be scanned
Ordenes ==
    {orden \in [1..6 -> Planetas] :
        \A i, j \in 1..6 : orden[i] = orden[j] => i = j}

\* an available body whose shorter-arc separation from the Moon is within
\* 3 degrees (exclusive) of one of the angles 0, 60, 90, 120, 180
HayAspectoCercano(dia_juliano) ==
    \E p \in Planetas :
       /\ Disponible(dia_juliano, p)
       /\ \E a \in {0, 60000, 90000, 120000, 180000} :
             Abs(Separacion(Longitud(dia_juliano, swe.MOON),
                            Longitud(dia_juliano, p)) - a) < 3000

VaciaEsperada(dia_juliano) ==
    IF ~Disponible(dia_juliano, swe.MOON)
    THEN FALSE
    ELSE IF Longitud(dia_juliano, swe.MOON) % 30000 <= 27000
    THEN FALSE
    ELSE ~(/\ swe_calc_ut(dia_juliano, swe.MOON).vel > 0
           /\ HayAspectoCercano(dia_juliano))

\* C15: esta_luna_vacia_de_curso is false when the Moon's degree within its
\* sign is 27 or less, or the Moon is unavailable; above 27 it is true
\* unless the Moon's speed is positive and an available body among Sun,
\* Mercury, Venus, Mars, Jupiter, Saturn is within the 3-degree orb (less
\* than 3 degrees) of one of the angles 0, 60, 90, 120, 180; the result is
\* the same for every order of scanning the six bodies.
C15_VaciaDeCurso ==
    pc = "vacia" =>
        /\ analisis.vacia = VaciaEsperada(solicitud.dia_juliano)
        /\ (/\ Disponible(solicitud.dia_juliano, swe.MOON)
            /\ Longitud(solicitud.dia_juliano, swe.MOON) % 30000 > 27000) =>
               \A orden \in Ordenes :
                  analisis.vacia =
                     ~ExplorarPlanetas(
                          obtener_posicion_planeta(solicitud.dia_juliano,
                                                   swe.MOON),
                          solicitud.dia_juliano, orden, FALSE)

\* a direct Moon beyond degree 27 whose only close aspect is to an
\* unavailable body was found void of course
C15_Testigo ==
    /\ pc = "vacia"
    /\ Disponible(solicitud.dia_juliano, swe.MOON)
    /\ Longitud(solicitud.dia_juliano, swe.MOON) % 30000 > 27000
    /\ swe_calc_ut(solicitud.dia_juliano, swe.MOON).vel > 0
    /\ ~Disponible(solicitud.dia_juliano, swe.JUPITER)
    /\ efemerides.lon0[swe.JUPITER]
           = (efemerides.lon0[swe.MOON] + DesfasesVaciaDeCurso.en_orbe) % 360000
    /\ ~HayAspectoCercano(solicitud.dia_juliano)
    /\ analisis.vacia

\* a direct Moon beyond degree 27 with a close aspect was not void of course
C15_TestigoAspecto ==
    /\ pc = "vacia"
    /\ Disponible(solicitud.dia_juliano, swe.MOON)
    /\ Longitud(solicitud.dia_juliano, swe.MOON) % 30000 > 27000
    /\ HayAspectoCercano(solicitud.dia_juliano)
    /\ swe_calc_ut(solicitud.dia_juliano, swe.MOON).vel > 0
    /\ ~analisis.vacia

\* the text of the hour that starts at h o'clock, ruled by planeta
TextosHoras ==
    [h \in 6..17, planeta \in {"Júpiter", "Venus", "Sol"} |->
        Formato02d(h) \o ":00 - " \o Formato02d(h + 1) \o ":00 (Hora de "
            \o planeta \o ")"]

EsHoraFavorable(texto) ==
    \E h \in 6..17, planeta \in {"Júpiter", "Venus", "Sol"} :
        texto = TextosHoras[h, planeta]

InicioDe(texto) ==
    CHOOSE h \in 6..17 :
        \E planeta \in {"Júpiter", "Venus", "Sol"} :
            texto = TextosHoras[h, planeta]

\* the hours of the list are favourable hours of the day, in ascending
\* order, each ruled by the planet it names
HorasCalculadas(mejores_horas, fecha) ==
    /\ Len(mejores_horas) <= 3
    /\ \A k \in DOMAIN mejores_horas :
          /\ EsHoraFavorable(mejores_horas[k])
          /\ mejores_horas[k] =
                 TextosHoras[
                     InicioDe(mejores_horas[k]),
                     obtener_horas_planetarias(
                         fecha, solicitud.latitud, solicitud.longitud)
                         [InicioDe(mejores_horas[k]) - 5].planeta]
    /\ \A k \in 1..(Len(mejores_horas) - 1) :
          InicioDe(mejores_horas[k]) < InicioDe(mejores_horas[k + 1])
    /\ mejores_horas = obtener_mejores_horas(fecha, solicitud.latitud,
                                             solicitud.longitud)

HorasSegunNivel(r, fecha) ==
    /\ r.nivel \in Niveles
    /\ r.nivel = "avoid" => r.mejores_horas = <<>>
    /\ r.nivel = "caution" =>
          /\ Len(r.mejores_horas) = 1
          /\ r.mejores_horas[1] =
                 "U+26A0 Si es urgente, evitar horas de Marte y Saturno"
          /\ ~EsHoraFavorable(r.mejores_horas[1])
    /\ r.nivel \in {"good", "excellent"} =>
          HorasCalculadas(r.mejores_horas, fecha)

\* C16: for every scanned day, level 'avoid' gives an empty best-hours
\* list, 'caution' gives exactly the one cautionary string and no computed
\* hour, and 'good' or 'excellent' gives the computed hours: at most 3,
\* all ruled by Jupiter, Venus or Sun, in ascending hour order.
C16_MejoresHoras ==
    (pc = "bucle" /\ resultados # <<>>) =>
        HorasSegunNivel(resultados[Len(resultados)], fecha_actual - 1)

\* a good or excellent day was scanned and got three hours
C16_Testigo ==
    /\ pc = "bucle"
    /\ resultados # <<>>
    /\ resultados[Len(resultados)].nivel \in {"good", "excellent"}
    /\ Len(resultados[Len(resultados)].mejores_horas) = 3

\* a day of caution was scanned and got the cautionary string
C16_TestigoCautela ==
    /\ pc = "bucle"
    /\ resultados # <<>>
    /\ resultados[Len(resultados)].nivel = "caution"
    /\ Len(resultados[Len(resultados)].mejores_horas) = 1

\* the calendar date of an entry of the results
FechaDe(r) == strptime(r.fecha_completa)

\* equal scores come in ascending date order, and an entry left out with
\* the score of the last entry kept is later than every entry kept with
\* that score
EmpatesPorFecha(fechas, descartados) ==
    /\ \A i, j \in DOMAIN fechas :
          (i < j /\ fechas[i].puntaje = fechas[j].puntaje) =>
              FechaDe(fechas[i]) < FechaDe(fechas[j])
    /\ \A k \in DOMAIN descartados :
          \A i \in DOMAIN fechas :
             descartados[k].puntaje = fechas[i].puntaje =>
                 FechaDe(fechas[i]) < FechaDe(descartados[k])

\* C17: the descending sort by score is stable: two returned days with
\* equal score appear in ascending date order, and when days tied at the
\* cut-off score are truncated it is the later dates that are dropped.
C17_EmpatesEstables ==
    (pc = "fin" /\ respuesta.estado = "exito") =>
        EmpatesPorFecha(respuesta.fechas,
                        SubSeq(resultados, Len(respuesta.fechas) + 1,
                               Len(resultados)))

\* days tied at the cut-off score were truncated, and two returned days tie
C17_Testigo ==
    /\ pc = "fin"
    /\ respuesta.estado = "exito"
    /\ Len(resultados) > 10
    /\ Len(respuesta.fechas) = 10
    /\ resultados[11].puntaje = respuesta.fechas[10].puntaje
    /\ respuesta.fechas[9].puntaje = respuesta.fechas[10].puntaje
    /\ respuesta.fechas[1].puntaje > respuesta.fechas[10].puntaje

SIMBOLOS == <<"U+260C", "U+26B9", "U+25A1", "U+25B3", "U+260D">>

\* the factor texts of an aspect of the Moon with the planet of the symbol
TextosLunaCon(simbolo_planeta) ==
    {"U+263D " \o SIMBOLOS[i] \o " " \o simbolo_planeta \o " ("
        \o NOMBRES[i] \o ")" : i \in 1..5}

\* the factor texts of each rule, in the fixed order of the rules: lunar
\* phase, void-of-course, via combusta, Mercury, Moon-Jupiter, Moon-Venus,
\* Moon-Mars, Moon-Saturn, lunar sign, Sun-Moon
TextosDeRegla ==
    <<{"U+263D Luna " \o f :
          f \in {FASES[k] : k \in 1..8} \cup {"desconocida"}},
      {"U+263D Luna Vacía de Curso"},
      {"U+263D Via Combusta (" \o ToString(g) \o "° " \o SIGNOS[k] \o ")" :
          g \in 0..30, k \in 1..12},
      {"U+263F Mercurio Retrógrado U+211E", "U+263F Mercurio Directo"},
      TextosLunaCon("U+2643"),
      TextosLunaCon("U+2640"),
      TextosLunaCon("U+2642"),
      TextosLunaCon("U+2644"),
      {"U+263D Luna en " \o SIGNOS[k] : k \in 1..12},
      {"U+2609 " \o SIMBOLOS[i] \o " U+263D" : i \in 1..5}>>

EsDeRegla(texto) == \E k \in 1..10 : texto \in TextosDeRegla[k]
ReglaDe(texto) == CHOOSE k \in 1..10 : texto \in TextosDeRegla[k]

EnOrdenDeReglas(factores) ==
    /\ Len(factores) >= 1
    /\ \A i \in DOMAIN factores : EsDeRegla(factores[i].texto)
    /\ ReglaDe(factores[1].texto) = 1
    /\ \A i \in 1..(Len(factores) - 1) :
          ReglaDe(factores[i].texto) < ReglaDe(factores[i + 1].texto)

\* C18: the factor list returned by calcular_puntaje_fecha is a
\* subsequence of the fixed rule order: every factor belongs to a rule,
\* the rules of successive factors strictly ascend (each rule at most one
\* factor, nothing re-sorted), and the lunar-phase factor is always
\* present and first.
C18_OrdenDeFactores ==
    pc = "puntuado" => EnOrdenDeReglas(analisis.factores)

\* a list in rule order that is sorted neither by polarity nor by weight:
\* a negative factor between two positive ones, then another negative one
C18_Testigo ==
    /\ pc = "puntuado"
    /\ Len(analisis.factores) >= 5
    /\ \E i, j, k, l \in DOMAIN analisis.factores :
          /\ i < j /\ j < k /\ k < l
          /\ analisis.factores[i].tipo = "positive"
          /\ analisis.factores[j].tipo = "negative"
          /\ analisis.factores[k].tipo = "positive"
          /\ analisis.factores[l].tipo = "negative"

====
